---- MODULE Spec2Model ----
(***************************************************************************)
(* Model of the lila-backend HTTP service (src/server.js): the              *)
(* authentication middleware, the chat CRUD routes backed by the            *)
(* persistence provider's "chats" table, and the generate route.            *)
(*                                                                          *)
(* Every request handler is an async function: it runs without              *)
(* interruption from one await to the next, and other requests may run      *)
(* between two of its segments.  The model has one action per segment.      *)
(* A segment that ends in an awaited provider call is resumed by the        *)
(* action that models the provider executing the call and the handler       *)
(* reading the reply, so a provider call takes effect at some moment        *)
(* after it was issued, and calls of different requests take effect in      *)
(* any order.                                                               *)
(***************************************************************************)
EXTENDS Integers, Sequences, FiniteSets, TLC

\* ---------------------------------------------------------------- bounds

\* Requests handled at the same time (slots of in-flight requests).
MaxInFlight == 2
\* Requests received in one behaviour.
MaxRequests == 3
\* Rows the provider ever inserts into the chats table.
MaxChats == 2
\* Last instant of the clock.
MaxClock == 1

Slots == 1..MaxInFlight

\* ------------------------------------------------------- values of inputs

\* JavaScript's undefined, where a string was expected.
Undefined == "undefined"

\* The Authorization header, as the words between its spaces
\* (<<>>: the request carries no Authorization header).
Headers ==
  { <<>>, <<"Bearer">>, <<"Bearer", "tokA">>, <<"Bearer", "tokB">>,
    <<"Bearer", "stale">> }

\* The user the auth provider knows a token for ("" when it knows none).
TokenUser(token) ==
  CASE token = "tokA" -> "A"
    [] token = "tokB" -> "B"
    [] OTHER -> ""

Msg(role, content) == [role |-> role, content |-> content]

M1 == << Msg("user", "hi") >>
M2 == << Msg("user", "hi"), Msg("assistant", "hey") >>

\* Bodies of PUT /api/chats/:id: a field that is absent from the record is
\* undefined in the handler.
Patches ==
  { <<>>,
    [title |-> "T1"],
    [messages |-> M1],
    [title |-> "T2", messages |-> M2],
    [title |-> "T1", user_id |-> "B"] }

\* A history in the provider's convention: { role, parts: [{ text }] }.
Turn(role, text) == [role |-> role, parts |-> << [text |-> text] >>]

H1 == << Turn("user", "hi"), Turn("model", "hey") >>

\* Bodies of POST /api/generate: message, chatId and history are each
\* optional.
GenBodies ==
  { [message |-> "hello", chatId |-> c] : c \in 1..MaxChats }
  \cup { [message |-> "hello"],
         [message |-> "hello", history |-> H1],
         [message |-> "", chatId |-> 1],
         [chatId |-> 1, history |-> H1] }

Ops == {"health", "list", "create", "get", "update", "delete", "generate"}

\* ------------------------------------------------------------------ state

VARIABLES
  chats,     \* the provider's chats table: id -> row, for the rows it holds
  nextId,    \* the id the provider gives the next inserted row
  now,       \* the clock
  reqs,      \* slot -> the request handled in it
  served,    \* requests received so far
  creator,   \* history: id -> the user whose Create inserted the row
  deleted    \* history: ids of which a Delete has reported success

vars == << chats, nextId, now, reqs, served, creator, deleted >>

\* A slot with no request in it.
Idle ==
  [ op |-> "idle", pc |-> "idle", hdr |-> <<>>, id |-> 0, body |-> <<>>,
    user |-> "", auth |-> "", chatData |-> <<>>, chatError |-> "",
    updateData |-> <<>>, status |-> 0, error |-> "", data |-> <<>>,
    text |-> "", details |-> "",
    seen |-> "", fault |-> FALSE, storeCalls |-> 0, genCalls |-> 0,
    genHistory |-> <<>>, genMessage |-> "",
    genResult |-> [text |-> "", error |-> ""], late |-> FALSE ]

Init ==
  /\ chats = <<>>
  /\ nextId = 1
  /\ now = 0
  /\ reqs = [s \in Slots |-> Idle]
  /\ served = 0
  /\ creator = <<>>
  /\ deleted = {}

\* ------------------------------------------------- authenticateUser

\* req.headers.authorization?.split(' ')[1]
Token(hdr) == IF Len(hdr) >= 2 THEN hdr[2] ELSE Undefined

\* !x for a string or undefined x
Falsy(x) == x \in {Undefined, ""}

\* res.status(status).json({ error: error }): the request is answered.
Respond(r, status, error) ==
  [r EXCEPT !.pc = "done", !.status = status, !.error = error]

\* What supabase.auth.getUser(token) resolves to: the user of a token the
\* provider knows, an error for any other token.
GetUserReply(token) ==
  IF TokenUser(token) = ""
  THEN [user |-> "", error |-> "invalid JWT"]
  ELSE [user |-> TokenUser(token), error |-> ""]

\* error && !data.user in place of error || !data.user
AuthRejected_And(reply) == reply.error = "" /\ reply.user = ""

\* error || !data.user
AuthRejected(reply) == reply.error # "" \/ reply.user = ""

\* ------------------------------------------------- the generation adapter

\* const { message, chatId, history } = req.body
MessageOf(body) == IF "message" \in DOMAIN body THEN body.message ELSE Undefined
ChatIdOf(body) == IF "chatId" \in DOMAIN body THEN body.chatId ELSE 0

\* The history handed over last turn first.
HistoryOf_Reversed(body) ==
  IF "history" \in DOMAIN body
  THEN [i \in 1..Len(body.history) |-> body.history[Len(body.history) + 1 - i]]
  ELSE <<>>

\* history || []
HistoryOf(body) == IF "history" \in DOMAIN body THEN body.history ELSE <<>>

\* model.startChat({history, ...}) and chat.sendMessage(message) are issued.
InvokeAdapter(r) ==
  [r EXCEPT !.pc = "gen_send", !.genCalls = @ + 1,
            !.genHistory = HistoryOf(r.body),
            !.genMessage = MessageOf(r.body)]

\* A generate handler that never loads the chat.
GenerateStart_NoCheck(r) ==
  IF Falsy(MessageOf(r.body))
  THEN Respond(r, 400, "Message is required")
  ELSE InvokeAdapter([r EXCEPT !.id = ChatIdOf(r.body)])

\* The first segment of the generate handler, up to its first await.
GenerateStart(r) ==
  IF Falsy(MessageOf(r.body))
  THEN Respond(r, 400, "Message is required")
  ELSE IF ChatIdOf(r.body) # 0
       THEN [r EXCEPT !.pc = "gen_load", !.id = ChatIdOf(r.body),
                      !.storeCalls = @ + 1]
       ELSE InvokeAdapter(r)

\* next(): the route's handler runs up to its first await, where it has
\* issued its first provider call.
HandlerStart(r) ==
  CASE r.op = "list" -> [r EXCEPT !.pc = "list", !.storeCalls = @ + 1]
    [] r.op = "create" -> [r EXCEPT !.pc = "create", !.storeCalls = @ + 1]
    [] r.op = "get" -> [r EXCEPT !.pc = "get", !.storeCalls = @ + 1]
    [] r.op = "update" -> [r EXCEPT !.pc = "upd_load", !.storeCalls = @ + 1]
    [] r.op = "delete" -> [r EXCEPT !.pc = "del_load", !.storeCalls = @ + 1]
    [] r.op = "generate" -> GenerateStart(r)

\* authenticateUser up to its await: no token, no call to the provider.
AuthStart(r) ==
  IF Falsy(Token(r.hdr))
  THEN Respond(r, 401, "No token provided")
  ELSE [r EXCEPT !.pc = "getUser"]

\* authenticateUser after its await.
AuthResume(r, reply) ==
  IF AuthRejected(reply)
  THEN Respond([r EXCEPT !.auth = "error"], 401, "Invalid or expired token")
  ELSE HandlerStart([r EXCEPT !.auth = "ok", !.user = reply.user])

\* ------------------------------------------------------------- requests

\* The path parameter and the body a request of each route may carry.
Inputs(op) ==
  CASE op \in {"get", "delete"} -> { [id |-> i, body |-> <<>>] : i \in 1..MaxChats }
    [] op = "update" -> { [id |-> i, body |-> b] : i \in 1..MaxChats, b \in Patches }
    [] op = "generate" -> { [id |-> 0, body |-> b] : b \in GenBodies }
    [] OTHER -> { [id |-> 0, body |-> <<>>] }

\* One input of each route, for the requests whose header carries no token
\* the provider knows.
SomeInput(op) ==
  CASE op \in {"get", "delete"} -> { [id |-> 1, body |-> <<>>] }
    [] op = "update" -> { [id |-> 1, body |-> [title |-> "T1"]] }
    [] op = "generate" -> { [id |-> 0, body |-> [message |-> "hello", chatId |-> 1]] }
    [] OTHER -> { [id |-> 0, body |-> <<>>] }

\* The requests a client may send.
Requests ==
  { [op |-> op, hdr |-> hdr, in |-> in] :
      op \in Ops, hdr \in Headers, in \in UNION { Inputs(o) : o \in Ops } }

Sent ==
  { q \in Requests :
      q.in \in (IF TokenUser(Token(q.hdr)) # "" /\ q.op # "health"
                THEN Inputs(q.op) ELSE SomeInput(q.op)) }

\* A slot is free when no request is being handled in it.
Free(s) == reqs[s].pc \in {"idle", "done"}

\* A request arrives (in the first free slot) and is routed: the health check
\* answers at once, every other route runs authenticateUser first.
Receive(s) ==
  /\ Free(s)
  /\ \A t \in Slots : t < s => ~Free(t)
  /\ served < MaxRequests
  /\ \E q \in Sent :
       LET r == [Idle EXCEPT !.op = q.op, !.hdr = q.hdr, !.id = q.in.id,
                             !.body = q.in.body,
                             !.late = (q.op = "delete" /\ q.in.id \in deleted)]
       IN reqs' = [reqs EXCEPT ![s] =
                     IF q.op = "health" THEN Respond(r, 200, "")
                     ELSE AuthStart(r)]
  /\ served' = served + 1
  /\ UNCHANGED << chats, nextId, now, creator, deleted >>

\* supabase.auth.getUser(token) resolves, or throws.
Authenticate(s) ==
  /\ reqs[s].pc = "getUser"
  /\ \/ reqs' = [reqs EXCEPT ![s] =
                   AuthResume(reqs[s], GetUserReply(Token(reqs[s].hdr)))]
     \/ reqs' = [reqs EXCEPT ![s] =
                   Respond([reqs[s] EXCEPT !.auth = "threw"], 500,
                           "Authentication error")]
  /\ UNCHANGED << chats, nextId, now, served, creator, deleted >>

\* ------------------------------------------------- the chats table

\* The rows of the table.
Rows == { chats[i] : i \in DOMAIN chats }

\* .eq('id', id)
WithId(rows, id) == { c \in rows : c.id = id }

\* .eq('user_id', user)
WithUser(rows, user) == { c \in rows : c.user_id = user }

\* The order with ascending: true.
Ordered_Ascending(rows) ==
  { q \in [1..Cardinality(rows) -> rows] :
      /\ \A i, j \in 1..Cardinality(rows) : i # j => q[i] # q[j]
      /\ \A i, j \in 1..Cardinality(rows) :
           i < j => q[i].updated_at <= q[j].updated_at }

\* .order('updated_at', { ascending: false }): the orders the provider may
\* return the rows in (rows of equal updated_at in either order).
Ordered(rows) ==
  { q \in [1..Cardinality(rows) -> rows] :
      /\ \A i, j \in 1..Cardinality(rows) : i # j => q[i] # q[j]
      /\ \A i, j \in 1..Cardinality(rows) :
           i < j => q[i].updated_at >= q[j].updated_at }

\* .single(): one row is the data; no row or several rows are an error.
Single(rows) ==
  IF Cardinality(rows) = 1
  THEN [data |-> << CHOOSE c \in rows : TRUE >>, error |-> ""]
  ELSE [data |-> <<>>, error |-> "PGRST116"]

\* .select('user_id')
UserIdOf(reply) ==
  [reply EXCEPT !.data = [i \in DOMAIN reply.data |-> [user_id |-> reply.data[i].user_id]]]

\* The reply of a call the provider could not serve.
Unavailable == [data |-> <<>>, error |-> "unavailable"]

\* The insert without its user_id.
NewChat_NoOwner(user, id, t) ==
  [ id |-> id, user_id |-> "", title |-> "New Chat", messages |-> <<>>,
    created_at |-> t, updated_at |-> t ]

\* .insert([{ user_id, title: 'New Chat', messages: [] }]): the row the
\* provider stores, with the id and the timestamps it assigns.
NewChat(user, id, t) ==
  [ id |-> id, user_id |-> user, title |-> "New Chat", messages |-> <<>>,
    created_at |-> t, updated_at |-> t ]

\* updateData built from the whole body: { ...req.body, updated_at }.
UpdateData_Spread(body, t) ==
  [ k \in {"updated_at"} \cup DOMAIN body |->
      IF k = "updated_at" THEN t ELSE body[k] ]

\* updateData: updated_at always, title and messages when the body has them.
UpdateData(body, t) ==
  [ k \in {"updated_at"} \cup (DOMAIN body \cap {"title", "messages"}) |->
      IF k = "updated_at" THEN t ELSE body[k] ]

\* .update(updateData) on one row: the columns named are overwritten.
Updated(c, updateData) ==
  [ k \in DOMAIN c |-> IF k \in DOMAIN updateData THEN updateData[k] ELSE c[k] ]

\* An update that inserts the row when the table has none with the id.
TableUpdate_Upsert(table, updateData, id) ==
  IF \E i \in DOMAIN table : table[i].id = id
  THEN [ i \in DOMAIN table |->
           IF table[i].id = id THEN Updated(table[i], updateData) ELSE table[i] ]
  ELSE (id :> Updated([ id |-> id, user_id |-> "", title |-> "New Chat",
                        messages |-> <<>>, created_at |-> updateData.updated_at,
                        updated_at |-> updateData.updated_at ], updateData))
       @@ table

\* The update without its .eq('id', id) filter.
TableUpdate_NoFilter(table, updateData, id) ==
  [ i \in DOMAIN table |-> Updated(table[i], updateData) ]

\* .update(updateData).eq('id', id) on the table.
TableUpdate(table, updateData, id) ==
  [ i \in DOMAIN table |->
      IF table[i].id = id THEN Updated(table[i], updateData) ELSE table[i] ]

\* .delete().eq('id', id) on the table.
TableDelete(table, id) ==
  [ i \in { j \in DOMAIN table : table[j].id # id } |-> table[i] ]

\* The owner of the row with this id, "" when the table has none (history).
OwnerNow(id) == IF id \in DOMAIN chats THEN chats[id].user_id ELSE ""

\* ------------------------------------------------- GET /api/chats

\* if (error) throw error; res.json(data || [])
ListRespond(r, reply) ==
  IF reply.error # ""
  THEN Respond(r, 500, "Failed to fetch chats")
  ELSE [Respond(r, 200, "") EXCEPT !.data = reply.data]

ListChats(s) ==
  /\ reqs[s].pc = "list"
  /\ \/ \E q \in Ordered(WithUser(Rows, reqs[s].user)) :
          reqs' = [reqs EXCEPT ![s] =
                     ListRespond(reqs[s], [data |-> q, error |-> ""])]
     \/ reqs' = [reqs EXCEPT ![s] =
                   ListRespond([reqs[s] EXCEPT !.fault = TRUE], Unavailable)]
  /\ UNCHANGED << chats, nextId, now, served, creator, deleted >>

\* ------------------------------------------------- POST /api/chats

\* if (error) throw error; res.status(201).json(data[0])
CreateRespond(r, reply) ==
  IF reply.error # ""
  THEN Respond(r, 500, "Failed to create chat")
  ELSE [Respond(r, 201, "") EXCEPT !.data = << reply.data[1] >>]

CreateChat(s) ==
  /\ reqs[s].pc = "create"
  /\ nextId <= MaxChats
  /\ \/ LET row == NewChat(reqs[s].user, nextId, now)
        IN /\ chats' = (nextId :> row) @@ chats
           /\ creator' = (nextId :> reqs[s].user) @@ creator
           /\ nextId' = nextId + 1
           /\ reqs' = [reqs EXCEPT ![s] =
                         CreateRespond(reqs[s], [data |-> << row >>, error |-> ""])]
     \/ /\ reqs' = [reqs EXCEPT ![s] =
                      CreateRespond([reqs[s] EXCEPT !.fault = TRUE], Unavailable)]
        /\ UNCHANGED << chats, creator, nextId >>
  /\ UNCHANGED << now, served, deleted >>

\* ------------------------------------------------- GET /api/chats/:id

\* if (error) throw error; if (!data) 404; res.json(data)
GetRespond(r, reply) ==
  IF reply.error # ""
  THEN Respond(r, 500, "Failed to fetch chat")
  ELSE IF reply.data = <<>>
       THEN Respond(r, 404, "Chat not found")
       ELSE [Respond(r, 200, "") EXCEPT !.data = reply.data]

GetChat(s) ==
  /\ reqs[s].pc = "get"
  /\ \/ reqs' = [reqs EXCEPT ![s] =
                   GetRespond([reqs[s] EXCEPT !.seen = OwnerNow(reqs[s].id)],
                              Single(WithUser(WithId(Rows, reqs[s].id), reqs[s].user)))]
     \/ reqs' = [reqs EXCEPT ![s] =
                   GetRespond([reqs[s] EXCEPT !.seen = OwnerNow(reqs[s].id),
                                              !.fault = TRUE], Unavailable)]
  /\ UNCHANGED << chats, nextId, now, served, creator, deleted >>

\* ------------------------------------------------- the ownership check

\* chatError || !chatData
NotFound(chatData, chatError) == chatError # "" \/ chatData = <<>>

\* The ownership comparison left out.
NotOwner_Never(chatData, user) == FALSE

\* chatData.user_id !== req.user.id
NotOwner(chatData, user) == chatData[1].user_id # user

\* .from('chats').select('user_id').eq('id', id).single(), as the provider
\* answers it from the table.
OwnerReply(id) == UserIdOf(Single(WithId(Rows, id)))

\* const { data: chatData, error: chatError } = await ...
Loaded(r, reply, fault) ==
  [r EXCEPT !.chatData = reply.data, !.chatError = reply.error,
            !.seen = OwnerNow(r.id), !.fault = fault]

\* ------------------------------------------------- PUT /api/chats/:id

\* An update that checks the owner of a loaded row only.
UpdateResume_NoNotFound(r, t) ==
  IF r.chatData # <<>> /\ NotOwner(r.chatData, r.user)
  THEN Respond(r, 403, "Unauthorized")
  ELSE [r EXCEPT !.updateData = UpdateData(r.body, t),
                 !.pc = "upd_write", !.storeCalls = @ + 1]

\* The handler after the ownership load: 404, 403, or the update is issued
\* with the time of this moment.
UpdateResume(r, t) ==
  IF NotFound(r.chatData, r.chatError)
  THEN Respond(r, 404, "Chat not found")
  ELSE IF NotOwner(r.chatData, r.user)
       THEN Respond(r, 403, "Unauthorized")
       ELSE [r EXCEPT !.updateData = UpdateData(r.body, t),
                      !.pc = "upd_write", !.storeCalls = @ + 1]

\* if (error) throw error; res.json({ success: true })
WriteRespond(r, error, failure) ==
  IF error # "" THEN Respond(r, 500, failure) ELSE Respond(r, 200, "")

\* The provider executes the ownership load.
UpdateLoad(s) ==
  /\ reqs[s].pc = "upd_load"
  /\ \/ reqs' = [reqs EXCEPT ![s] =
                   [Loaded(reqs[s], OwnerReply(reqs[s].id), FALSE)
                      EXCEPT !.pc = "upd_check"]]
     \/ reqs' = [reqs EXCEPT ![s] =
                   [Loaded(reqs[s], Unavailable, TRUE) EXCEPT !.pc = "upd_check"]]
  /\ UNCHANGED << chats, nextId, now, served, creator, deleted >>

\* The handler resumes with the reply of the load.
UpdateCheck(s) ==
  /\ reqs[s].pc = "upd_check"
  /\ reqs' = [reqs EXCEPT ![s] = UpdateResume(reqs[s], now)]
  /\ UNCHANGED << chats, nextId, now, served, creator, deleted >>

\* The provider executes the update and the handler answers.
UpdateWrite(s) ==
  /\ reqs[s].pc = "upd_write"
  /\ \/ /\ chats' = TableUpdate(chats, reqs[s].updateData, reqs[s].id)
        /\ reqs' = [reqs EXCEPT ![s] =
                      WriteRespond(reqs[s], "", "Failed to update chat")]
     \/ /\ reqs' = [reqs EXCEPT ![s] =
                      WriteRespond([reqs[s] EXCEPT !.fault = TRUE], "unavailable",
                                   "Failed to update chat")]
        /\ UNCHANGED chats
  /\ UNCHANGED << nextId, now, served, creator, deleted >>

\* ------------------------------------------------- DELETE /api/chats/:id

\* A delete that takes a missing chat for one already deleted and goes on.
DeleteResume_Lenient(r) ==
  IF r.chatData # <<>> /\ NotOwner(r.chatData, r.user)
  THEN Respond(r, 403, "Unauthorized")
  ELSE [r EXCEPT !.pc = "del_write", !.storeCalls = @ + 1]

\* The handler after the ownership load: 404, 403, or the delete is issued.
DeleteResume(r) ==
  IF NotFound(r.chatData, r.chatError)
  THEN Respond(r, 404, "Chat not found")
  ELSE IF NotOwner(r.chatData, r.user)
       THEN Respond(r, 403, "Unauthorized")
       ELSE [r EXCEPT !.pc = "del_write", !.storeCalls = @ + 1]

\* The provider executes the ownership load and the handler resumes.
DeleteLoad(s) ==
  /\ reqs[s].pc = "del_load"
  /\ \/ reqs' = [reqs EXCEPT ![s] =
                   DeleteResume(Loaded(reqs[s], OwnerReply(reqs[s].id), FALSE))]
     \/ reqs' = [reqs EXCEPT ![s] =
                   DeleteResume(Loaded(reqs[s], Unavailable, TRUE))]
  /\ UNCHANGED << chats, nextId, now, served, creator, deleted >>

\* The provider executes the delete and the handler answers.
DeleteWrite(s) ==
  /\ reqs[s].pc = "del_write"
  /\ \/ /\ chats' = TableDelete(chats, reqs[s].id)
        /\ deleted' = deleted \cup {reqs[s].id}
        /\ reqs' = [reqs EXCEPT ![s] =
                      WriteRespond(reqs[s], "", "Failed to delete chat")]
     \/ /\ reqs' = [reqs EXCEPT ![s] =
                      WriteRespond([reqs[s] EXCEPT !.fault = TRUE], "unavailable",
                                   "Failed to delete chat")]
        /\ UNCHANGED << chats, deleted >>
  /\ UNCHANGED << nextId, now, served, creator >>

\* ------------------------------------------------- POST /api/generate

\* The handler after the ownership load: 404, 403, or the adapter is invoked.
GenerateResume(r) ==
  IF NotFound(r.chatData, r.chatError)
  THEN Respond(r, 404, "Chat not found")
  ELSE IF NotOwner(r.chatData, r.user)
       THEN Respond(r, 403, "Unauthorized")
       ELSE InvokeAdapter(r)

\* The provider executes the ownership load and the handler resumes.
GenerateLoad(s) ==
  /\ reqs[s].pc = "gen_load"
  /\ \/ reqs' = [reqs EXCEPT ![s] =
                   GenerateResume(Loaded(reqs[s], OwnerReply(reqs[s].id), FALSE))]
     \/ reqs' = [reqs EXCEPT ![s] =
                   GenerateResume(Loaded(reqs[s], Unavailable, TRUE))]
  /\ UNCHANGED << chats, nextId, now, served, creator, deleted >>

\* What chat.sendMessage(message) may end with: the reply text, or a
\* rejection with the provider's message.
AdapterResults ==
  { [text |-> "reply", error |-> ""], [text |-> "", error |-> "quota exceeded"] }

\* A handler that sends the message once more when the adapter has failed.
GenerateRespond_Retry(r, result) ==
  IF result.error # "" /\ r.genCalls < 2
  THEN [r EXCEPT !.genCalls = @ + 1, !.genResult = result]
  ELSE IF result.error # ""
       THEN [Respond(r, 500, "Failed to generate response")
               EXCEPT !.details = result.error, !.genResult = result]
       ELSE [Respond(r, 200, "") EXCEPT !.text = result.text, !.genResult = result]

\* const responseText = result.response.text(); res.json({ response }), or
\* the catch block: 500 with details: error.message.
GenerateRespond(r, result) ==
  IF result.error # ""
  THEN [Respond(r, 500, "Failed to generate response")
          EXCEPT !.details = result.error, !.genResult = result]
  ELSE [Respond(r, 200, "") EXCEPT !.text = result.text, !.genResult = result]

\* A generate handler that appends the reply to the chat's messages.
GenerateSend_Persist(s) ==
  /\ reqs[s].pc = "gen_send"
  /\ \E result \in AdapterResults :
       /\ reqs' = [reqs EXCEPT ![s] = GenerateRespond(reqs[s], result)]
       /\ chats' = IF result.error = "" /\ reqs[s].id \in DOMAIN chats
                   THEN [chats EXCEPT ![reqs[s].id].messages =
                           Append(@, Msg("assistant", result.text))]
                   ELSE chats
  /\ UNCHANGED << nextId, now, served, creator, deleted >>

\* chat.sendMessage(message) resolves with the reply, or rejects.
GenerateSend(s) ==
  /\ reqs[s].pc = "gen_send"
  /\ \E result \in AdapterResults :
       reqs' = [reqs EXCEPT ![s] = GenerateRespond(reqs[s], result)]
  /\ UNCHANGED << chats, nextId, now, served, creator, deleted >>

\* ------------------------------------------------- the system

\* Time passes.
Tick ==
  /\ now < MaxClock
  /\ now' = now + 1
  /\ UNCHANGED << chats, nextId, reqs, served, creator, deleted >>

Next ==
  \/ \E s \in Slots : Receive(s)
  \/ \E s \in Slots : Authenticate(s)
  \/ \E s \in Slots : ListChats(s)
  \/ \E s \in Slots : CreateChat(s)
  \/ \E s \in Slots : GetChat(s)
  \/ \E s \in Slots : UpdateLoad(s)
  \/ \E s \in Slots : UpdateCheck(s)
  \/ \E s \in Slots : UpdateWrite(s)
  \/ \E s \in Slots : DeleteLoad(s)
  \/ \E s \in Slots : DeleteWrite(s)
  \/ \E s \in Slots : GenerateLoad(s)
  \/ \E s \in Slots : GenerateSend(s)
  \/ Tick

Spec == Init /\ [][Next]_vars

\* ------------------------------------------------------------- properties

Done(s) == reqs[s].pc = "done"

\* The slot whose request took the step.
Stepped(s) == reqs'[s] # reqs[s]

\* The request of slot s is answered in this step.
Answers(s) == reqs[s].pc # "done" /\ reqs'[s].pc = "done"

\* Every chat of a List or Get response was created by the user the response
\* is sent to.
ReadsOwnOnly ==
  \A s \in Slots :
    Done(s) /\ reqs[s].op \in {"list", "get"} =>
      \A i \in DOMAIN reqs[s].data :
        creator[reqs[s].data[i].id] = reqs[s].user

\* A step that changes or removes a row is a step of an Update or Delete
\* request of the user who created the row.
WritesOwnOnly ==
  \A id \in DOMAIN chats :
    (id \notin DOMAIN chats' \/ chats'[id] # chats[id]) =>
      \E s \in Slots :
        /\ Stepped(s)
        /\ reqs[s].op \in {"update", "delete"}
        /\ reqs[s].id = id
        /\ reqs[s].user = creator[id]

\* C1: ownership isolation.  In every behaviour, a chat created by user A is
\* never part of a List or Get response sent to another user B, and no step
\* of a request of B changes a field of that chat or removes it: only an
\* Update or Delete of its creator does.
C1_OwnershipIsolation == [][ReadsOwnOnly' /\ WritesOwnOnly]_vars

\* B's Update of a chat of A was answered 403 and the chat is still stored.
C1_Witness ==
  \E s \in Slots :
    /\ Done(s) /\ reqs[s].op = "update" /\ reqs[s].status = 403
    /\ reqs[s].user = "B"
    /\ reqs[s].id \in DOMAIN chats /\ creator[reqs[s].id] = "A"

\* C2: Get(owner, id) answers 404 when no chat with the id exists and when
\* the chat belongs to another owner (the provider having served the read);
\* never 403 and never the generic server error.
C2_GetNotFound ==
  \A s \in Slots :
    /\ Done(s) /\ reqs[s].op = "get" /\ reqs[s].auth = "ok"
    /\ ~reqs[s].fault /\ reqs[s].seen # reqs[s].user
    => reqs[s].status = 404

\* The ownership load of the request of slot s has been answered to its
\* handler.
Checked(s) ==
  /\ reqs[s].auth = "ok"
  /\ reqs[s].pc \in {"upd_write", "del_write", "gen_send", "done"}
  /\ reqs[s].storeCalls > 0

\* The two-step check of an Update or Delete request, on what the table held
\* when the provider executed the load.
TwoStepCheck(s) ==
  /\ reqs[s].seen = "" => Done(s) /\ reqs[s].status = 404
  /\ reqs[s].seen \notin {"", reqs[s].user} /\ ~reqs[s].fault
       => Done(s) /\ reqs[s].status = 403
  /\ reqs[s].status \in {403, 404} => reqs[s].storeCalls = 1
  /\ reqs[s].storeCalls = 2 =>
       reqs[s].seen = reqs[s].user /\ reqs[s].status \notin {403, 404}

\* C3: Update and Delete run the same check in this order: no chat with the
\* id gives 404; otherwise an owner other than the caller gives 403; a write
\* or a removal is issued only when both checks passed.  The step that
\* answers 404 or 403 leaves the table as it was, and such a request has
\* issued no call but the load.
C3_CheckThenWrite ==
  [][ /\ \A s \in Slots :
           reqs'[s].op \in {"update", "delete"} /\ Checked(s)' => TwoStepCheck(s)'
      /\ \A s \in Slots :
           /\ reqs[s].op \in {"update", "delete"}
           /\ Answers(s) /\ reqs'[s].status \in {403, 404}
           => chats' = chats ]_vars

\* A Delete of a chat of another user was answered 403, an Update of an id
\* that is not in the table 404.
C3_Witness ==
  /\ \E s \in Slots :
       /\ Done(s) /\ reqs[s].op = "delete" /\ reqs[s].status = 403
       /\ reqs[s].seen \notin {"", reqs[s].user} /\ reqs[s].id \in DOMAIN chats
  /\ \E s \in Slots :
       /\ Done(s) /\ reqs[s].op = "update" /\ reqs[s].status = 404
       /\ reqs[s].auth = "ok" /\ reqs[s].seen = "" /\ ~reqs[s].fault

\* C4: a Generate request with an empty or absent message is answered 400;
\* one with a chatId that is not in the table 404, one with a chatId of
\* another user's chat 403; in the three cases the adapter is not invoked;
\* and when the adapter is invoked for a request with a chatId, the load of
\* that request has returned a row of the caller.
C4_GenerateGuard ==
  \A s \in Slots :
    reqs[s].op = "generate" /\ reqs[s].auth = "ok" =>
      /\ Falsy(MessageOf(reqs[s].body)) =>
           /\ Done(s) /\ reqs[s].status = 400
           /\ reqs[s].genCalls = 0 /\ reqs[s].storeCalls = 0
      /\ reqs[s].pc = "gen_load" => reqs[s].genCalls = 0
      /\ ChatIdOf(reqs[s].body) # 0 /\ Checked(s) =>
           /\ reqs[s].seen = "" =>
                Done(s) /\ reqs[s].status = 404 /\ reqs[s].genCalls = 0
           /\ reqs[s].seen \notin {"", reqs[s].user} /\ ~reqs[s].fault =>
                Done(s) /\ reqs[s].status = 403 /\ reqs[s].genCalls = 0
      /\ ChatIdOf(reqs[s].body) # 0 /\ reqs[s].genCalls > 0 =>
           /\ reqs[s].chatData = << [user_id |-> reqs[s].user] >>
           /\ reqs[s].chatError = ""
           /\ reqs[s].seen = reqs[s].user

\* A Generate with the chatId of another user's chat was answered 403 without
\* a call of the adapter, and one with the caller's own chat reached it.
C4_Witness ==
  /\ \E s \in Slots :
       /\ Done(s) /\ reqs[s].op = "generate" /\ reqs[s].status = 403
       /\ reqs[s].genCalls = 0 /\ reqs[s].seen \notin {"", reqs[s].user}
  /\ \E s \in Slots :
       /\ reqs[s].op = "generate" /\ reqs[s].genCalls = 1
       /\ ChatIdOf(reqs[s].body) # 0

\* C5: on every route but the health check, a request without a credential
\* is answered 401, and so is one whose credential the auth provider does
\* not resolve; such a request issues no call to the chats table and none to
\* the adapter, and none is issued before the provider has answered.
C5_AuthShortCircuit ==
  \A s \in Slots :
    reqs[s].op \notin {"idle", "health"} =>
      /\ Falsy(Token(reqs[s].hdr)) =>
           Done(s) /\ reqs[s].status = 401 /\ reqs[s].error = "No token provided"
      /\ ~Falsy(Token(reqs[s].hdr)) /\ TokenUser(Token(reqs[s].hdr)) = ""
         /\ reqs[s].auth \notin {"", "threw"} =>
           /\ Done(s) /\ reqs[s].status = 401
           /\ reqs[s].error = "Invalid or expired token"
      /\ reqs[s].status = 401 \/ reqs[s].pc = "getUser" =>
           reqs[s].storeCalls = 0 /\ reqs[s].genCalls = 0 /\ reqs[s].user = ""

\* An Update with a token the provider does not know, and a Delete without a
\* token, were answered 401.
C5_Witness ==
  /\ \E s \in Slots :
       /\ Done(s) /\ reqs[s].op = "update" /\ reqs[s].auth = "error"
       /\ reqs[s].status = 401
  /\ \E s \in Slots :
       /\ Done(s) /\ reqs[s].op = "delete" /\ reqs[s].auth = ""
       /\ reqs[s].status = 401

Max(a, b) == IF a >= b THEN a ELSE b

\* The values a column may end with after the two writes a and b.
Written(a, b, k) ==
  (IF k \in DOMAIN a THEN {a[k]} ELSE {}) \cup (IF k \in DOMAIN b THEN {b[k]} ELSE {})

\* C6: two Updates of the same chat by its owner, handled at the same time,
\* have both reported success: the stored title and messages are values one
\* of the two wrote, and the stored updated_at is the later of the two
\* timestamps the requests produced.
C6_ConcurrentUpdates ==
  \A s, t \in Slots :
    /\ s # t /\ Done(s) /\ Done(t)
    /\ reqs[s].op = "update" /\ reqs[t].op = "update"
    /\ reqs[s].status = 200 /\ reqs[t].status = 200
    /\ reqs[s].id = reqs[t].id /\ reqs[s].id \in DOMAIN chats
    /\ reqs[s].user = reqs[t].user
    => LET c == chats[reqs[s].id]
           a == reqs[s].updateData
           b == reqs[t].updateData
       IN /\ c.updated_at = Max(a.updated_at, b.updated_at)
          /\ Written(a, b, "title") # {} => c.title \in Written(a, b, "title")
          /\ Written(a, b, "messages") # {} =>
               c.messages \in Written(a, b, "messages")

\* The step is the write of a successful Update of slot s.
UpdateSucceeds(s) ==
  /\ reqs[s].op = "update" /\ reqs[s].pc = "upd_write"
  /\ Answers(s) /\ reqs'[s].status = 200

\* C7: a successful Update whose body has no messages leaves the messages of
\* the chat unchanged, one whose body has no title leaves the title
\* unchanged, and every successful Update leaves id, user_id and created_at
\* of the chat, and every other row of the table, unchanged.
C7_UpdateFrame ==
  [][ \A s \in Slots :
        UpdateSucceeds(s) =>
          /\ DOMAIN chats' = DOMAIN chats
          /\ \A id \in DOMAIN chats :
               IF id = reqs[s].id
               THEN /\ chats'[id].id = chats[id].id
                    /\ chats'[id].user_id = chats[id].user_id
                    /\ chats'[id].created_at = chats[id].created_at
                    /\ "title" \notin DOMAIN reqs[s].body =>
                         chats'[id].title = chats[id].title
                    /\ "messages" \notin DOMAIN reqs[s].body =>
                         chats'[id].messages = chats[id].messages
               ELSE chats'[id] = chats[id] ]_vars

\* An Update with a title only has succeeded, after a tick of the clock, on
\* one of two stored chats: the title and the later updated_at are stored.
C7_Witness ==
  \E s \in Slots :
    /\ Done(s) /\ reqs[s].op = "update" /\ reqs[s].status = 200
    /\ reqs[s].body = [title |-> "T1"]
    /\ reqs[s].id \in DOMAIN chats
    /\ chats[reqs[s].id].title = "T1"
    /\ chats[reqs[s].id].updated_at > chats[reqs[s].id].created_at
    /\ Cardinality(DOMAIN chats) = 2

\* C8: every successful Update sets the chat's updated_at to the time of
\* that update, also with an empty body, and the stored updated_at of a chat
\* never moves backwards.
C8_UpdatedAtAdvances ==
  [][ \A id \in DOMAIN chats \cap DOMAIN chats' :
        /\ chats'[id].updated_at >= chats[id].updated_at
        /\ \A s \in Slots :
             UpdateSucceeds(s) /\ reqs[s].id = id =>
               chats'[id].updated_at = reqs[s].updateData.updated_at ]_vars

\* C9: once a Delete of a chat id has reported success, every Delete of the
\* same id that is received later and passes authentication is answered 404,
\* never success, and issues no call but its load.
C9_RepeatedDelete ==
  \A s \in Slots :
    /\ reqs[s].op = "delete" /\ reqs[s].late /\ reqs[s].auth = "ok"
    /\ reqs[s].pc # "del_load"
    => /\ Done(s) /\ reqs[s].status = 404
       /\ reqs[s].storeCalls = 1
       /\ reqs[s].id \notin DOMAIN chats

\* The owner's second Delete of a deleted chat was answered 404.
C9_Witness ==
  \E s \in Slots :
    /\ Done(s) /\ reqs[s].op = "delete" /\ reqs[s].late
    /\ reqs[s].status = 404 /\ ~reqs[s].fault
    /\ reqs[s].user = creator[reqs[s].id]

\* The step is the insert of a successful Create of slot s.
CreateSucceeds(s) ==
  /\ reqs[s].op = "create" /\ reqs[s].pc = "create"
  /\ Answers(s) /\ reqs'[s].status = 201

\* C10: a successful Create adds exactly one row, with the caller as
\* user_id, no messages, a non-empty title and an id no row has or had,
\* answers 201 with that row, and leaves every other row unchanged.
C10_Create ==
  [][ \A s \in Slots :
        CreateSucceeds(s) =>
          \E id \in DOMAIN chats' \ DOMAIN chats :
            /\ DOMAIN chats' = DOMAIN chats \cup {id}
            /\ id \notin DOMAIN creator
            /\ chats'[id].id = id
            /\ chats'[id].user_id = reqs[s].user
            /\ chats'[id].messages = <<>>
            /\ chats'[id].title # ""
            /\ reqs'[s].data = << chats'[id] >>
            /\ \A i \in DOMAIN chats : chats'[i] = chats[i] ]_vars

\* A Create of B was answered 201 with the second row of the table, beside a
\* chat of A.
C10_Witness ==
  \E s \in Slots :
    /\ Done(s) /\ reqs[s].op = "create" /\ reqs[s].status = 201
    /\ reqs[s].user = "B"
    /\ reqs[s].data[1].id \in DOMAIN chats
    /\ chats[reqs[s].data[1].id] = reqs[s].data[1]
    /\ \E i \in DOMAIN chats : chats[i].user_id = "A"

\* The step is the read of a successful List of slot s.
ListSucceeds(s) ==
  /\ reqs[s].op = "list" /\ reqs[s].pc = "list"
  /\ Answers(s) /\ reqs'[s].status = 200

\* C11: a successful List answers with all and only the rows whose user_id
\* is the caller at the time of the read, each once, in non-increasing order
\* of updated_at; a caller without rows gets the empty sequence with status
\* 200; the step changes nothing in the table.
C11_List ==
  [][ \A s \in Slots :
        ListSucceeds(s) =>
          LET d == reqs'[s].data
          IN /\ { d[i] : i \in DOMAIN d } =
                  { chats[id] : id \in { j \in DOMAIN chats :
                                           chats[j].user_id = reqs[s].user } }
             /\ \A i, j \in DOMAIN d : i # j => d[i].id # d[j].id
             /\ \A i, j \in DOMAIN d : i < j => d[i].updated_at >= d[j].updated_at
             /\ (\A id \in DOMAIN chats : chats[id].user_id # reqs[s].user)
                  => d = <<>>
             /\ chats' = chats ]_vars

\* A List was answered with the caller's two chats, the one updated last
\* first.
C11_Witness ==
  \E s \in Slots :
    /\ Done(s) /\ reqs[s].op = "list" /\ reqs[s].status = 200
    /\ Len(reqs[s].data) = 2
    /\ reqs[s].data[1].updated_at > reqs[s].data[2].updated_at

\* C12: no step of a Generate request, whatever its outcome and with or
\* without a chatId, changes the table; the stored messages of a chat change
\* only in the write of a successful Update of its owner.
C12_GenerateNeverPersists ==
  [][ /\ \A s \in Slots :
           Stepped(s) /\ "generate" \in {reqs[s].op, reqs'[s].op} => chats' = chats
      /\ \A id \in DOMAIN chats \cap DOMAIN chats' :
           chats'[id].messages # chats[id].messages =>
             \E s \in Slots :
               /\ UpdateSucceeds(s) /\ reqs[s].id = id
               /\ reqs[s].user = chats[id].user_id ]_vars

\* A Generate with the chatId of the caller's chat was answered with the
\* reply, and the chat still has no messages.
C12_Witness ==
  \E s \in Slots :
    /\ Done(s) /\ reqs[s].op = "generate" /\ reqs[s].status = 200
    /\ reqs[s].text = "reply"
    /\ reqs[s].id \in DOMAIN chats
    /\ chats[reqs[s].id].messages = <<>>
    /\ chats[reqs[s].id].updated_at = chats[reqs[s].id].created_at

\* The canonical roles.
Canonical == {"user", "assistant", "system"}

\* C13: the history handed to the adapter holds canonical roles only: each
\* turn has the role of the supplied turn, with model mapped to assistant,
\* and no turn with another role reaches the adapter.
C13_RoleNormalization ==
  \A s \in Slots :
    reqs[s].op = "generate" /\ reqs[s].genCalls > 0 /\ "history" \in DOMAIN reqs[s].body =>
      /\ Len(reqs[s].genHistory) = Len(reqs[s].body.history)
      /\ \A i \in DOMAIN reqs[s].genHistory :
           /\ reqs[s].genHistory[i].role \in Canonical
           /\ reqs[s].genHistory[i].role =
                (IF reqs[s].body.history[i].role = "model" THEN "assistant"
                 ELSE reqs[s].body.history[i].role)

\* C14: in every reachable state the user_id of each stored chat is the user
\* whose Create inserted it, whatever fields the bodies of the Updates
\* carried.
C14_OwnerImmutable ==
  \A id \in DOMAIN chats : chats[id].user_id = creator[id]

\* An Update of A whose body carries user_id B has succeeded on A's chat:
\* its title is stored and the chat is still A's.
C14_Witness ==
  \E s \in Slots :
    /\ Done(s) /\ reqs[s].op = "update" /\ reqs[s].status = 200
    /\ "user_id" \in DOMAIN reqs[s].body /\ reqs[s].body.user_id = "B"
    /\ reqs[s].user = "A"
    /\ reqs[s].id \in DOMAIN chats
    /\ chats[reqs[s].id].title = "T1"
    /\ chats[reqs[s].id].user_id = "A"

\* C15: when the provider fails in a step of List, Create, Get, Update,
\* Delete or the ownership check of Generate, the load before the ownership
\* check included, the request is answered 500, never 404 or 403.
C15_FailureMapping ==
  \A s \in Slots :
    Done(s) /\ reqs[s].fault => reqs[s].status = 500

\* C16: within one Generate request the adapter is invoked at most once; a
\* failed invocation is answered 500 with the provider's message as details
\* and no second invocation, a successful one with exactly its reply text.
C16_NoRetry ==
  \A s \in Slots :
    reqs[s].op = "generate" =>
      /\ reqs[s].genCalls <= 1
      /\ reqs[s].pc = "gen_send" => reqs[s].genCalls = 1 /\ reqs[s].status = 0
      /\ Done(s) /\ reqs[s].genCalls = 1 =>
           IF reqs[s].genResult.error = ""
           THEN /\ reqs[s].status = 200
                /\ reqs[s].text = reqs[s].genResult.text
                /\ reqs[s].details = ""
           ELSE /\ reqs[s].status = 500
                /\ reqs[s].error = "Failed to generate response"
                /\ reqs[s].details = reqs[s].genResult.error
                /\ reqs[s].text = ""

\* A Generate whose one invocation failed was answered 500 with the
\* provider's message.
C16_Witness ==
  \E s \in Slots :
    /\ Done(s) /\ reqs[s].op = "generate" /\ reqs[s].genCalls = 1
    /\ reqs[s].status = 500 /\ reqs[s].details = "quota exceeded"

\* C17: the turns handed to the adapter are the turns of the supplied
\* history, as many, in the same order, each with its content (none when the
\* body has no history), and the message sent with them is the body's
\* message.
C17_HistoryOrder ==
  \A s \in Slots :
    reqs[s].op = "generate" /\ reqs[s].genCalls > 0 =>
      /\ reqs[s].genMessage = reqs[s].body.message
      /\ IF "history" \in DOMAIN reqs[s].body
         THEN /\ Len(reqs[s].genHistory) = Len(reqs[s].body.history)
              /\ \A i \in 1..Len(reqs[s].body.history) :
                   reqs[s].genHistory[i].parts = reqs[s].body.history[i].parts
         ELSE reqs[s].genHistory = <<>>

\* A Generate with a history of two turns has reached the adapter with "hi"
\* before "hey".
C17_Witness ==
  \E s \in Slots :
    /\ reqs[s].op = "generate" /\ reqs[s].genCalls = 1
    /\ Len(reqs[s].genHistory) = 2
    /\ reqs[s].genHistory[1].parts = << [text |-> "hi"] >>
    /\ reqs[s].genHistory[2].parts = << [text |-> "hey"] >>
    /\ reqs[s].genMessage = "hello"

\* C18: an Update that reports success has written its patch to a chat that
\* was in the table when the write was executed, also when a Delete of the
\* same id runs at the same time.
C18_UpdateSuccessStored ==
  [][ \A s \in Slots :
        UpdateSucceeds(s) =>
          /\ reqs[s].id \in DOMAIN chats
          /\ reqs[s].id \in DOMAIN chats'
          /\ \A k \in DOMAIN reqs[s].updateData :
               chats'[reqs[s].id][k] = reqs[s].updateData[k] ]_vars

\* C19: an id that was inserted and is no longer in the table is in the
\* table in no later state: neither the write of an Update that passed its
\* ownership check before the removal nor a Create brings it back.
C19_DeletionPermanent ==
  [][ \A id \in DOMAIN creator :
        id \notin DOMAIN chats => id \notin DOMAIN chats' ]_vars

\* An Update that loaded the caller's chat has executed its write after a
\* Delete removed the chat: the id is not in the table.
C19_Witness ==
  \E s \in Slots :
    /\ Done(s) /\ reqs[s].op = "update" /\ reqs[s].status = 200
    /\ reqs[s].storeCalls = 2 /\ reqs[s].seen = reqs[s].user
    /\ reqs[s].id \in DOMAIN creator
    /\ reqs[s].id \notin DOMAIN chats

====
